---------------------------- MODULE Spec2Model ----------------------------
(***************************************************************************)
(* Model of casperlabs_local_net/docker_config.py: the DockerConfig        *)
(* dataclass, its __post_init__ and its derivation methods.                *)
(*                                                                         *)
(* Python dict objects live in a heap (dicts) and are held by reference,   *)
(* so that the assignment self.node_env = DEFAULT_NODE_ENV is an alias of  *)
(* the module-level dict, as in Python.                                    *)
(***************************************************************************)
EXTENDS Integers, Sequences, FiniteSets, TLC

VARIABLES
    dicts,      \* heap of dict objects; dicts[DefaultRef] is DEFAULT_NODE_ENV
    ambient,    \* os.environ.get("_JAVA_OPTIONS"): None or a string
    cfgs,       \* the DockerConfig instances constructed so far
    last        \* the last operation performed, its arguments and its result

vars == <<dicts, ambient, cfgs, last>>

-----------------------------------------------------------------------------
(* Bounds and input sets *)

MaxInstances == 2

\* Python's None; no string of the input sets below equals it
None == "None:NoneType"
\* a required positional argument left out of the constructor call
Missing == "<missing argument>"

JavaOptionValues == {"-Xmx1g", "-Xmx2g"}
LogLevels == {"INFO", "DEBUG"}
Numbers == {-1, 0, 3}
Hosts == {"10.0.0.9", "node-0"}
BootstrapAddresses == {None, "", "1.2.3.4:40400", "10.0.0.5:40400"}
PublicKeys == {None, "", "PUBKEY"}
PrivateKeys == {None, "PRIVKEY", "PRIVKEY2"}
RandomStrings == {"aaaaa", "bbbbb"}
WriteKeys == {"CL_VERSION"}
WriteValues == {"x"}

-----------------------------------------------------------------------------
(* dict helpers *)

EmptyDict == [k \in {} |-> ""]

\* d[k] = v
Put(d, k, v) == [x \in (DOMAIN d) \cup {k} |-> IF x = k THEN v ELSE d[x]]

\* del d[k]
Del(d, k) == [x \in (DOMAIN d) \ {k} |-> d[x]]

\* bool(x) of an Optional[str]
Truthy(x) == x # None /\ x # ""

-----------------------------------------------------------------------------
(* Module-level values *)

\* the address of the module-level dict DEFAULT_NODE_ENV
DefaultRef == 1

DEFAULT_NODE_ENV(log_level) ==
    [k \in {"RUST_BACKTRACE", "CL_LOG_LEVEL", "CL_SERVER_NO_UPNP", "CL_VERSION"} |->
        CASE k = "RUST_BACKTRACE" -> "full"
          [] k = "CL_LOG_LEVEL" -> log_level
          [] k = "CL_SERVER_NO_UPNP" -> "true"
          [] k = "CL_VERSION" -> "test"]

\* imported from casperlabs_local_net.common; their values are not part of this
\* file and are kept symbolic
BOOTSTRAP_PATH == "<BOOTSTRAP_PATH>"

testing_root_path == "<testing_root_path()>"

-----------------------------------------------------------------------------
(* Derivation methods *)

\* a path that names the default node number instead of the instance's
tls_certificate_path_DefaultNumber(self) ==
    BOOTSTRAP_PATH \o "/node-" \o ToString(0) \o ".certificate.pem"

tls_certificate_path(self) ==
    BOOTSTRAP_PATH \o "/node-" \o ToString(self.number) \o ".certificate.pem"

tls_key_path(self) ==
    BOOTSTRAP_PATH \o "/node-" \o ToString(self.number) \o ".key.pem"

tls_certificate_local_path(self) ==
    testing_root_path \o "/resources" \o "/bootstrap_certificate"
        \o "/node-" \o ToString(self.number) \o ".certificate.pem"

\* the API key flag given the certificate's path
BaseOptions_ApiKeySlip(self, server_host) ==
    [k \in {"--server-default-timeout", "--server-host", "--grpc-socket",
            "--metrics-prometheus", "--tls-certificate", "--tls-key",
            "--tls-api-certificate", "--tls-api-key"} |->
        CASE k = "--server-default-timeout" -> "10second"
          [] k = "--server-host" -> server_host
          [] k = "--grpc-socket" -> "/root/.casperlabs/sockets/.casper-node.sock"
          [] k = "--metrics-prometheus" -> ""
          [] k = "--tls-certificate" -> tls_certificate_path(self)
          [] k = "--tls-key" -> tls_key_path(self)
          [] k = "--tls-api-certificate" -> tls_certificate_path(self)
          [] k = "--tls-api-key" -> tls_certificate_path(self)]

\* lines 69-78: the entries every option map holds
BaseOptions(self, server_host) ==
    [k \in {"--server-default-timeout", "--server-host", "--grpc-socket",
            "--metrics-prometheus", "--tls-certificate", "--tls-key",
            "--tls-api-certificate", "--tls-api-key"} |->
        CASE k = "--server-default-timeout" -> "10second"
          [] k = "--server-host" -> server_host
          [] k = "--grpc-socket" -> "/root/.casperlabs/sockets/.casper-node.sock"
          [] k = "--metrics-prometheus" -> ""
          [] k = "--tls-certificate" -> tls_certificate_path(self)
          [] k = "--tls-key" -> tls_key_path(self)
          [] k = "--tls-api-certificate" -> tls_certificate_path(self)
          [] k = "--tls-api-key" -> tls_key_path(self)]

\* the private key given to validators instead of to nodes that are not read-only
WithValidatorKey_IfValidator(self, options) ==
    IF self.is_validator
    THEN Put(options, "--casper-validator-private-key", self.node_private_key)
    ELSE options

\* lines 79-80
WithValidatorKey(self, options) ==
    IF ~self.is_read_only
    THEN Put(options, "--casper-validator-private-key", self.node_private_key)
    ELSE options

\* the TLS marker set whatever grpc_encryption is
WithGrpcTls_Always(self, options) ==
    Put(options, "--grpc-use-tls", "")

\* lines 81-82
WithGrpcTls(self, options) ==
    IF self.grpc_encryption THEN Put(options, "--grpc-use-tls", "") ELSE options

\* the bootstrap address left out on a node that is itself a bootstrap node
WithBootstrap_NotOnBootstrap(self, options) ==
    IF Truthy(self.bootstrap_address) /\ ~self.is_bootstrap
    THEN Put(options, "--server-bootstrap", self.bootstrap_address)
    ELSE options

\* lines 83-84
WithBootstrap(self, options) ==
    IF Truthy(self.bootstrap_address)
    THEN Put(options, "--server-bootstrap", self.bootstrap_address)
    ELSE options

\* lines 85-86
WithPublicKey(self, options) ==
    IF Truthy(self.node_public_key)
    THEN Put(options, "--casper-validator-public-key", self.node_public_key)
    ELSE options

node_command_options(self, server_host) ==
    WithPublicKey(self,
        WithBootstrap(self,
            WithGrpcTls(self,
                WithValidatorKey(self, BaseOptions(self, server_host)))))

-----------------------------------------------------------------------------
(* Construction *)

\* the dataclass field defaults; docker_client and node_private_key have none.
\* initial_motes is held in units of 10^9 motes (100 billion motes); no method
\* reads it.
FieldDefaults ==
    [docker_client |-> Missing, node_private_key |-> Missing,
     node_public_key |-> None, node_env |-> <<>>, network |-> None,
     number |-> 0, rand_str |-> None, command_timeout |-> 180,
     mem_limit |-> "4G", is_bootstrap |-> FALSE, is_validator |-> TRUE,
     is_signed_deploy |-> TRUE, bootstrap_address |-> None,
     initial_motes |-> 100, socket_volume |-> None,
     node_account |-> None, grpc_encryption |-> FALSE, is_read_only |-> FALSE]

\* the generated __init__ raises TypeError when a field without default is left out
InitRaises(args) ==
    args.docker_client = Missing \/ args.node_private_key = Missing

\* a merge that replaces the environment by the override alone
MergeJavaOptions_Replace(d, java_options) ==
    IF java_options # None THEN [k \in {"_JAVA_OPTIONS"} |-> java_options] ELSE d

\* lines 49-51: merge the ambient _JAVA_OPTIONS into the dict node_env refers to
MergeJavaOptions(d, java_options) ==
    IF java_options # None THEN Put(d, "_JAVA_OPTIONS", java_options) ELSE d

\* lines 47-48: the dict object self.node_env refers to after the defaulting.
\* args.node_env is <<>> for None and <<d>> for a caller-supplied dict d,
\* which becomes a new heap object.
NodeEnvRef(args, heap) ==
    IF args.node_env = <<>> THEN DefaultRef ELSE Len(heap) + 1

\* the record of an operation: its name, the instance it acted on, its arguments
\* (host, env), its result (path, opts, raised) and the name of the operation
\* before it (prev)
NoLast == [op |-> "none", inst |-> 0, host |-> "", path |-> "", opts |-> EmptyDict,
           env |-> <<>>, raised |-> "", prev |-> "none"]

Construct(args) ==
    /\ Len(cfgs) < MaxInstances
    /\ IF InitRaises(args)
       THEN /\ last' = [NoLast EXCEPT !.prev = last.op, !.op = "construct", !.raised = "TypeError"]
            /\ UNCHANGED <<dicts, ambient, cfgs>>
       ELSE \E r \in RandomStrings :
            LET rand == IF args.rand_str = None THEN r ELSE args.rand_str
                ref  == NodeEnvRef(args, dicts)
                heap == IF args.node_env = <<>> THEN dicts
                        ELSE Append(dicts, args.node_env[1])
                self == [args EXCEPT !.rand_str = rand, !.node_env = ref]
            IN  /\ dicts' = [heap EXCEPT ![ref] = MergeJavaOptions(@, ambient)]
                /\ cfgs' = Append(cfgs, self)
                /\ last' = [NoLast EXCEPT !.prev = last.op, !.op = "construct", !.inst = Len(cfgs) + 1,
                                          !.env = args.node_env]
                /\ UNCHANGED ambient

-----------------------------------------------------------------------------
(* Operations of the callers and of the surrounding process *)

\* os.environ["_JAVA_OPTIONS"] is set, changed or unset between constructions
SetAmbient(v) ==
    /\ v # ambient
    /\ ambient' = v
    /\ last' = [NoLast EXCEPT !.prev = last.op, !.op = "setenv"]
    /\ UNCHANGED <<dicts, cfgs>>

\* cfg.node_env[k] = v
EnvSet(i, k, v) ==
    /\ i \in 1..Len(cfgs)
    /\ dicts' = [dicts EXCEPT ![cfgs[i].node_env] = Put(@, k, v)]
    /\ last' = [NoLast EXCEPT !.prev = last.op, !.op = "env_write", !.inst = i]
    /\ UNCHANGED <<ambient, cfgs>>

\* del cfg.node_env[k]
EnvDel(i, k) ==
    /\ i \in 1..Len(cfgs)
    /\ k \in DOMAIN dicts[cfgs[i].node_env]
    /\ dicts' = [dicts EXCEPT ![cfgs[i].node_env] = Del(@, k)]
    /\ last' = [NoLast EXCEPT !.prev = last.op, !.op = "env_write", !.inst = i]
    /\ UNCHANGED <<ambient, cfgs>>

\* cfg.<field> = value
SetAttr(i, field, value) ==
    /\ i \in 1..Len(cfgs)
    /\ cfgs[i][field] # value
    /\ cfgs' = [cfgs EXCEPT ![i][field] = value]
    /\ last' = [NoLast EXCEPT !.prev = last.op, !.op = "setattr", !.inst = i]
    /\ UNCHANGED <<dicts, ambient>>

CallCertificatePath(i) ==
    /\ i \in 1..Len(cfgs)
    /\ last' = [NoLast EXCEPT !.prev = last.op, !.op = "tls_certificate_path", !.inst = i,
                              !.path = tls_certificate_path(cfgs[i])]
    /\ UNCHANGED <<dicts, ambient, cfgs>>

CallKeyPath(i) ==
    /\ i \in 1..Len(cfgs)
    /\ last' = [NoLast EXCEPT !.prev = last.op, !.op = "tls_key_path", !.inst = i,
                              !.path = tls_key_path(cfgs[i])]
    /\ UNCHANGED <<dicts, ambient, cfgs>>

CallCertificateLocalPath(i) ==
    /\ i \in 1..Len(cfgs)
    /\ last' = [NoLast EXCEPT !.prev = last.op, !.op = "tls_certificate_local_path", !.inst = i,
                              !.path = tls_certificate_local_path(cfgs[i])]
    /\ UNCHANGED <<dicts, ambient, cfgs>>

CallCommandOptions(i, server_host) ==
    /\ i \in 1..Len(cfgs)
    /\ last' = [NoLast EXCEPT !.prev = last.op, !.op = "node_command_options", !.inst = i,
                              !.host = server_host,
                              !.opts = node_command_options(cfgs[i], server_host)]
    /\ UNCHANGED <<dicts, ambient, cfgs>>

-----------------------------------------------------------------------------
(* Specifications *)

\* the state after the module is imported: no instance yet, DEFAULT_NODE_ENV
\* built with the CL_LOG_LEVEL of the process (default "INFO")
Init ==
    /\ \E l \in LogLevels : dicts = <<DEFAULT_NODE_ENV(l)>>
    /\ ambient \in {None} \cup JavaOptionValues
    /\ cfgs = <<>>
    /\ last = NoLast

\* the environments a caller passes as node_env
SuppliedEnvs == {EmptyDict, [k \in {"_JAVA_OPTIONS"} |-> "-caller"]}

\* constructor calls that vary node_env only
EnvArgs ==
    {[FieldDefaults EXCEPT !.docker_client = "client", !.node_private_key = "PRIVKEY",
                           !.rand_str = "abcde", !.node_env = e] :
        e \in {<<>>} \cup {<<d>> : d \in SuppliedEnvs}}

\* constructor calls that vary the required arguments and the node number
IdentityArgs ==
    {[FieldDefaults EXCEPT !.docker_client = c, !.node_private_key = k, !.number = n] :
        c \in {Missing, None, "client"}, k \in {Missing, None, "PRIVKEY"}, n \in Numbers}

\* constructor calls that pass any combination of the fields the derivation
\* methods read
ConfigArgs ==
    {[FieldDefaults EXCEPT !.docker_client = "client", !.node_private_key = k,
                           !.node_public_key = p, !.rand_str = "abcde",
                           !.number = n, !.is_bootstrap = b,
                           !.is_validator = v, !.bootstrap_address = a,
                           !.grpc_encryption = g, !.is_read_only = r] :
        k \in PrivateKeys, p \in PublicKeys, n \in Numbers, b \in BOOLEAN,
        v \in BOOLEAN, a \in BootstrapAddresses, g \in BOOLEAN, r \in BOOLEAN}

\* the fields written after construction, with the values written
FieldValues(field) ==
    CASE field = "number" -> Numbers
      [] field = "node_private_key" -> PrivateKeys
      [] field = "node_public_key" -> PublicKeys
      [] field = "bootstrap_address" -> BootstrapAddresses
      [] field \in {"is_bootstrap", "is_validator", "grpc_encryption", "is_read_only"}
            -> BOOLEAN

WrittenFields == {"number", "node_private_key", "node_public_key", "bootstrap_address",
                  "is_bootstrap", "is_validator", "grpc_encryption", "is_read_only"}

\* a process without CL_LOG_LEVEL and _JAVA_OPTIONS, before any construction
InitNoAmbient ==
    /\ dicts = <<DEFAULT_NODE_ENV("INFO")>>
    /\ ambient = None
    /\ cfgs = <<>>
    /\ last = NoLast

ChangeAmbient == \E v \in {None} \cup JavaOptionValues : SetAmbient(v)
ConstructEnv == \E args \in EnvArgs : Construct(args)
ConstructIdentity == \E args \in IdentityArgs : Construct(args)
\* the derivations read one instance only: a single instance is constructed
ConstructAny == \E args \in ConfigArgs : Len(cfgs) = 0 /\ Construct(args)
WriteEnv == \E i \in 1..MaxInstances, k \in WriteKeys, v \in WriteValues : EnvSet(i, k, v)
DeleteEnv == \E i \in 1..MaxInstances, k \in WriteKeys : EnvDel(i, k)
WriteField ==
    \E i \in 1..MaxInstances, f \in WrittenFields : \E v \in FieldValues(f) : SetAttr(i, f, v)
CertificatePath == \E i \in 1..MaxInstances : CallCertificatePath(i)
KeyPath == \E i \in 1..MaxInstances : CallKeyPath(i)
CertificateLocalPath == \E i \in 1..MaxInstances : CallCertificateLocalPath(i)
CommandOptions == \E i \in 1..MaxInstances, h \in Hosts : CallCommandOptions(i, h)

\* constructions under a changing ambient environment, and environment writes
Next == ChangeAmbient \/ ConstructEnv \/ WriteEnv \/ DeleteEnv
Spec == Init /\ [][Next]_vars

\* constructions under a changing ambient environment
NextCtor == ChangeAmbient \/ ConstructEnv
SpecCtor == Init /\ [][NextCtor]_vars

\* constructions with and without the required arguments, and the path derivations
NextIdentity == ConstructIdentity \/ CertificatePath \/ KeyPath \/ CertificateLocalPath
SpecIdentity == InitNoAmbient /\ [][NextIdentity]_vars

\* one construction, then field writes and derivations on the instance
NextOpts == ConstructAny \/ WriteField \/ CertificatePath \/ KeyPath \/ CertificateLocalPath
                \/ CommandOptions
SpecOpts == InitNoAmbient /\ [][NextOpts]_vars

TypeOK ==
    /\ Len(dicts) >= 1
    /\ Len(cfgs) <= MaxInstances
    /\ \A i \in 1..Len(cfgs) :
        /\ DOMAIN cfgs[i] = DOMAIN FieldDefaults
        /\ cfgs[i].node_env \in 1..Len(dicts)
        /\ cfgs[i].number \in Numbers
        /\ cfgs[i].is_read_only \in BOOLEAN
        /\ cfgs[i].grpc_encryption \in BOOLEAN

-----------------------------------------------------------------------------
(* Properties *)

JavaKey == "_JAVA_OPTIONS"
PrivateKeyFlag == "--casper-validator-private-key"
PublicKeyFlag == "--casper-validator-public-key"
BootstrapFlag == "--server-bootstrap"
GrpcTlsFlag == "--grpc-use-tls"
BaseFlags == {"--server-default-timeout", "--server-host", "--grpc-socket",
              "--metrics-prometheus", "--tls-certificate", "--tls-key",
              "--tls-api-certificate", "--tls-api-key"}

\* the environment instance i holds
EnvOf(i) == dicts[cfgs[i].node_env]

\* the last operation constructed an instance
Constructed == last.op = "construct" /\ last.raised = ""
\* the last operation constructed an instance without a caller-supplied environment
ConstructedByDefault == Constructed /\ last.env = <<>>
\* the last operation was commandOptions
OptionsCalled == last.op = "node_command_options"

\* C1: writing (adding, changing, removing) a key of the environment of an
\* instance constructed without a caller-supplied environment changes neither
\* the environment of any other instance nor the baseline defaults.
C1_EnvironmentsIndependent ==
    [][\A i \in 1..Len(cfgs) :
          (last'.op = "env_write" /\ last'.inst = i) =>
              /\ \A j \in 1..Len(cfgs) : j # i => EnvOf(j)' = EnvOf(j)
              /\ dicts'[DefaultRef] = dicts[DefaultRef]]_vars

\* C2: right after a construction, the new instance's _JAVA_OPTIONS equals the
\* ambient value if there is one; if there is none the key is absent unless the
\* caller supplied an environment that holds it.
C2_JavaOptionsFollowAmbient ==
    Constructed =>
        LET env == EnvOf(last.inst)
        IN  /\ ambient # None => (JavaKey \in DOMAIN env /\ env[JavaKey] = ambient)
            /\ (ambient = None /\ JavaKey \in DOMAIN env) =>
                   (last.env # <<>> /\ JavaKey \in DOMAIN last.env[1])

Self == cfgs[last.inst]

\* the path of node n's certificate and of its key
CertificatePathFor(n) == BOOTSTRAP_PATH \o "/node-" \o ToString(n) \o ".certificate.pem"
KeyPathFor(n) == BOOTSTRAP_PATH \o "/node-" \o ToString(n) \o ".key.pem"

\* not read-only, not encrypted, no public key, no bootstrap address
IsDefaultNode(c) ==
    /\ ~c.is_read_only
    /\ ~c.grpc_encryption
    /\ c.node_public_key = None
    /\ c.bootstrap_address = None

\* nodeNumber=3, isReadOnly=false, grpcEncryption=true,
\* bootstrapAddress="10.0.0.5:40400", publicKey="PUBKEY"
IsScenarioNode(c) ==
    /\ c.number = 3
    /\ ~c.is_read_only
    /\ c.grpc_encryption
    /\ c.bootstrap_address = "10.0.0.5:40400"
    /\ c.node_public_key = "PUBKEY"

\* the flags commandOptions holds for c: the base flags and the conditional
\* flags whose condition holds
FlagsFor(c) ==
    BaseFlags
        \cup (IF ~c.is_read_only THEN {PrivateKeyFlag} ELSE {})
        \cup (IF c.grpc_encryption THEN {GrpcTlsFlag} ELSE {})
        \cup (IF Truthy(c.bootstrap_address) THEN {BootstrapFlag} ELSE {})
        \cup (IF Truthy(c.node_public_key) THEN {PublicKeyFlag} ELSE {})

\* what C4 says of an option map o of node c for host h, given the number of
\* entries of a default node (nDefault) and of the scenario node (nScenario)
OptionsAsClaimed(c, h, o, nDefault, nScenario) ==
    /\ DOMAIN o = FlagsFor(c)
    /\ IsDefaultNode(c) =>
          /\ DOMAIN o = BaseFlags \cup {PrivateKeyFlag}
          /\ Cardinality(DOMAIN o) = nDefault
    /\ (IsScenarioNode(c) /\ h = "10.0.0.9") =>
          /\ DOMAIN o = BaseFlags \cup {PrivateKeyFlag, GrpcTlsFlag, BootstrapFlag,
                                          PublicKeyFlag}
          /\ Cardinality(DOMAIN o) = nScenario
          /\ o["--server-host"] = "10.0.0.9"
          /\ o["--tls-certificate"] = CertificatePathFor(3)
          /\ o["--tls-api-certificate"] = CertificatePathFor(3)
          /\ o[GrpcTlsFlag] = ""
          /\ o[BootstrapFlag] = "10.0.0.5:40400"
          /\ o[PublicKeyFlag] = "PUBKEY"

\* C4 as stated: commandOptions holds the base entries and the conditional
\* entries whose condition holds and nothing else, 8 entries for a default node
\* and 11 for the scenario node.
C4_OptionsExact_8_11 ==
    OptionsCalled => OptionsAsClaimed(Self, last.host, last.opts, 8, 11)

\* C4 amended: commandOptions holds the base entries and the conditional entries
\* whose condition holds and nothing else, 9 entries for a default node (the 8
\* unconditional ones and the validator private key) and 12 for the scenario node.
C4_OptionsExact_9_12 ==
    OptionsCalled => OptionsAsClaimed(Self, last.host, last.opts, 9, 12)

\* commandOptions("10.0.0.9") was called on the scenario node
C4_Witness ==
    /\ OptionsCalled
    /\ IsScenarioNode(Self)
    /\ last.host = "10.0.0.9"
    /\ Cardinality(DOMAIN last.opts) = 12

\* C5: commandOptions has no validator private-key entry when isReadOnly is
\* true, and has it with the instance's private key as value when isReadOnly is
\* false, whatever the other fields and the host.
C5_PrivateKeyIffNotReadOnly ==
    OptionsCalled =>
        /\ Self.is_read_only => PrivateKeyFlag \notin DOMAIN last.opts
        /\ ~Self.is_read_only =>
              /\ PrivateKeyFlag \in DOMAIN last.opts
              /\ last.opts[PrivateKeyFlag] = Self.node_private_key

\* commandOptions was called on a read-only validator with a private key
C5_Witness ==
    /\ OptionsCalled
    /\ Self.is_read_only
    /\ Self.is_validator
    /\ Self.node_private_key = "PRIVKEY2"
    /\ PrivateKeyFlag \notin DOMAIN last.opts

\* C6 as stated: commandOptions has the --server-bootstrap entry exactly when
\* bootstrapAddress is set (not None), for every string, and its value is the
\* bootstrapAddress.
C6_BootstrapIffSet ==
    OptionsCalled =>
        /\ BootstrapFlag \in DOMAIN last.opts <=> Self.bootstrap_address # None
        /\ BootstrapFlag \in DOMAIN last.opts =>
              last.opts[BootstrapFlag] = Self.bootstrap_address

\* C6 amended: commandOptions has the --server-bootstrap entry exactly when
\* bootstrapAddress is set to a non-empty string, and its value is the
\* bootstrapAddress, whatever isBootstrap and the other role flags.
C6_BootstrapIffNonEmpty ==
    OptionsCalled =>
        /\ BootstrapFlag \in DOMAIN last.opts <=>
              (Self.bootstrap_address # None /\ Self.bootstrap_address # "")
        /\ BootstrapFlag \in DOMAIN last.opts =>
              last.opts[BootstrapFlag] = Self.bootstrap_address

\* commandOptions was called on a bootstrap node with a bootstrap address
C6_Witness ==
    /\ OptionsCalled
    /\ Self.is_bootstrap
    /\ Self.bootstrap_address = "1.2.3.4:40400"
    /\ last.opts[BootstrapFlag] = "1.2.3.4:40400"

\* C7: every instance that exists has a runtime client and a private key: a
\* construction without them, or with None for either, yields no instance.
C7_IdentityRequired ==
    \A i \in 1..Len(cfgs) :
        /\ cfgs[i].docker_client \notin {Missing, None}
        /\ cfgs[i].node_private_key \notin {Missing, None}

\* C8: every instance that exists has nodeNumber >= 0, and no derived path is
\* computed from a negative nodeNumber.
C8_NumberNonNegative ==
    /\ \A i \in 1..Len(cfgs) : cfgs[i].number >= 0
    /\ last.op \in {"tls_certificate_path", "tls_key_path", "tls_certificate_local_path"}
          => Self.number >= 0

\* the derivation calls
DerivationOps == {"tls_certificate_path", "tls_key_path", "node_command_options"}

\* C9: a call of certificatePath, keyPath or commandOptions changes no field of
\* any instance, and returns the value given by the instance's fields as they
\* are at the call, whatever was written or returned before.
C9_DerivationsReadCurrentFields ==
    [][last'.op \in DerivationOps =>
          /\ cfgs' = cfgs
          /\ dicts' = dicts
          /\ LET c == cfgs[last'.inst]
                 o == last'.opts
             IN  /\ last'.op = "tls_certificate_path" =>
                        last'.path = CertificatePathFor(c.number)
                 /\ last'.op = "tls_key_path" => last'.path = KeyPathFor(c.number)
                 /\ last'.op = "node_command_options" =>
                        /\ DOMAIN o = FlagsFor(c)
                        /\ o["--server-host"] = last'.host
                        /\ o["--tls-certificate"] = CertificatePathFor(c.number)
                        /\ o["--tls-key"] = KeyPathFor(c.number)
                        /\ PrivateKeyFlag \in DOMAIN o => o[PrivateKeyFlag] = c.node_private_key
                        /\ BootstrapFlag \in DOMAIN o => o[BootstrapFlag] = c.bootstrap_address
                        /\ PublicKeyFlag \in DOMAIN o => o[PublicKeyFlag] = c.node_public_key]_vars

\* certificatePath was called right after a field write and names the number
\* the instance holds now
C9_Witness ==
    /\ last.op = "tls_certificate_path"
    /\ last.prev = "setattr"
    /\ Self.number = 3
    /\ last.path = CertificatePathFor(3)

\* C10: the certificate path and the key path an instance returns are those of
\* its nodeNumber, whatever its other fields, and commandOptions names the same
\* certificate path under --tls-certificate and --tls-api-certificate and the
\* same key path under --tls-key and --tls-api-key.
C10_PathsOfNumberAlone ==
    /\ last.op = "tls_certificate_path" => last.path = CertificatePathFor(Self.number)
    /\ last.op = "tls_key_path" => last.path = KeyPathFor(Self.number)
    /\ OptionsCalled =>
          /\ last.opts["--tls-certificate"] = CertificatePathFor(Self.number)
          /\ last.opts["--tls-api-certificate"] = CertificatePathFor(Self.number)
          /\ last.opts["--tls-key"] = KeyPathFor(Self.number)
          /\ last.opts["--tls-api-key"] = KeyPathFor(Self.number)

\* commandOptions was called on a read-only, encrypted bootstrap node numbered 3
C10_Witness ==
    /\ OptionsCalled
    /\ Self.number = 3
    /\ Self.is_read_only
    /\ Self.is_bootstrap
    /\ Self.grpc_encryption
    /\ last.opts["--tls-api-key"] = KeyPathFor(3)

=============================================================================
